---------------------------- MODULE Spec2Model ----------------------------
(***************************************************************************)
(* Model of methods/guest/src/bin/optimal_allocation.rs: the rate curve,   *)
(* the APR evaluator, the chunked greedy allocator, the APR aggregator and *)
(* the decision gate of main.                                              *)
(*                                                                         *)
(* Integer widths.  The program computes in U256 (checked: +, -, * panic   *)
(* on overflow, / panics on a zero divisor), narrows with as_u64/as_u128   *)
(* (panic when the value does not fit) and casts u128 <-> i128 with `as`   *)
(* (two's complement wrap).  TLC's integers are 32 bit, so the widths are  *)
(* scaled: U256 is 31 bit, u128 is 30 bit, i128 is 30 bit signed and u64   *)
(* is 28 bit; the order u64 < i128 < u128 < U256 is kept.  The literals    *)
(* 1e18 and 1e36 of the rate curve are scaled with them (E18, E36).        *)
(* SECONDS_PER_YEAR keeps its value.  A panic is the value PANIC, which    *)
(* every operation passes on.                                              *)
(*                                                                         *)
(* Sequences are 1-based: strategy index j of the program is j + 1 here.   *)
(***************************************************************************)
EXTENDS Integers, Sequences, FiniteSets, TLC

VARIABLES
    pc,                    \* position of main / of the function under test
    c,                     \* chunk_count
    total_initial_amount,
    total_available_amount,
    initial_datas,         \* Seq of Position: [strategy, debt]
    strategy_datas,        \* Seq of StrategyParams: [current_debt, max_debt]
    sturdy_datas,          \* Seq of SturdyDataParams
    deposit_unit,
    b,                     \* working copy of the positions' debts
    i,                     \* chunk index of the next iteration
    b_before,              \* b when the last iteration started
    b_mid,                 \* b of the last iteration after the remainder, before placement
    max_index,             \* index the last iteration placed its chunk on
    optimal_allocations,   \* result of get_optimal_allocation
    current_apr,
    new_apr,
    journal,               \* what main committed
    arg,                   \* arguments of the function under test
    ret                    \* its result

vars == <<pc, c, total_initial_amount, total_available_amount, initial_datas,
          strategy_datas, sturdy_datas, deposit_unit, b, i, b_before, b_mid,
          max_index, optimal_allocations, current_apr, new_apr, journal, arg, ret>>

----------------------------------------------------------------------------
(* Checked integer arithmetic *)

U256Max == 2147483647
U128Max == 1073741823
U64Max == 268435455
I128Max == (U128Max - 1) \div 2
I128Min == 0 - I128Max - 1

PANIC == 0 - 1

SECONDS_PER_YEAR == 31556952

E18 == 10
E36 == 100

\* U256 + U256
UAdd(x, y) ==
    IF x < 0 \/ y < 0 THEN PANIC
    ELSE IF x > U256Max - y THEN PANIC
    ELSE x + y

\* U256 - U256
USub(x, y) ==
    IF x < 0 \/ y < 0 THEN PANIC
    ELSE IF x < y THEN PANIC
    ELSE x - y

\* U256 * U256
UMul(x, y) ==
    IF x < 0 \/ y < 0 THEN PANIC
    ELSE IF x = 0 \/ y = 0 THEN 0
    ELSE IF x > U256Max \div y THEN PANIC
    ELSE x * y

\* U256 / U256
UDiv(x, y) ==
    IF x < 0 \/ y < 0 THEN PANIC
    ELSE IF y = 0 THEN PANIC
    ELSE x \div y

\* U256::as_u64
AsU64(x) == IF x < 0 \/ x > U64Max THEN PANIC ELSE x

\* U256::as_u128
AsU128(x) == IF x < 0 \/ x > U128Max THEN PANIC ELSE x

\* u128 as i128
U128AsI128(x) == IF x > I128Max THEN x - (U128Max + 1) ELSE x

\* i128 as u128
I128AsU128(x) == IF x < 0 THEN x + (U128Max + 1) ELSE x

\* I256::as_i128
FitsI128(x) == I128Min <= x /\ x <= I128Max

----------------------------------------------------------------------------
(* RateCurveModel *)

get_full_utilization_interest_unclamped(delta_time, utilization, sd) ==
    IF utilization < sd.min_target_util THEN
        LET delta_utilization ==
                UDiv(UMul(USub(sd.min_target_util, utilization), E18), sd.min_target_util)
            half == UMul(sd.rate_half_life, E36)
            decay_growth ==
                UAdd(half, UMul(UMul(delta_utilization, delta_utilization), delta_time))
        IN  AsU64(UDiv(UMul(sd.full_utilization_rate, half), decay_growth))
    ELSE IF utilization > sd.max_target_util THEN
        LET delta_utilization ==
                UDiv(UMul(USub(utilization, sd.max_target_util), E18),
                     USub(sd.util_prec, sd.max_target_util))
            half == UMul(sd.rate_half_life, E36)
            decay_growth ==
                UAdd(half, UMul(UMul(delta_utilization, delta_utilization), delta_time))
        IN  AsU64(UDiv(UMul(sd.full_utilization_rate, decay_growth), half))
    ELSE AsU64(sd.full_utilization_rate)

\* a clamp that forgets the lower bound
clamp_upper_only(r, sd) ==
    IF r < 0 THEN PANIC
    ELSE IF AsU64(sd.max_full_util_rate) < 0 THEN PANIC
    ELSE IF r > sd.max_full_util_rate THEN sd.max_full_util_rate
    ELSE r

\* lines 65-69
clamp_full_utilization_interest(r, sd) ==
    IF r < 0 THEN PANIC
    ELSE IF AsU64(sd.max_full_util_rate) < 0 THEN PANIC
    ELSE IF r > sd.max_full_util_rate THEN sd.max_full_util_rate
    ELSE IF AsU64(sd.min_full_util_rate) < 0 THEN PANIC
    ELSE IF r < sd.min_full_util_rate THEN sd.min_full_util_rate
    ELSE r

get_full_utilization_interest(delta_time, utilization, sd) ==
    clamp_full_utilization_interest(
        get_full_utilization_interest_unclamped(delta_time, utilization, sd), sd)

\* the first component of get_new_rate's pair; the second is
\* get_full_utilization_interest
get_new_rate(delta_time, utilization, sd) ==
    LET new_full_utilization_interest ==
            get_full_utilization_interest(delta_time, utilization, sd)
        vertex_interest ==
            UAdd(UDiv(UMul(USub(new_full_utilization_interest, sd.zero_util_rate),
                           sd.vertex_rate_percent),
                      sd.rate_prec),
                 sd.zero_util_rate)
    IN  IF new_full_utilization_interest < 0 \/ utilization < 0 THEN PANIC
        ELSE IF utilization < sd.vertex_utilization THEN
            AsU64(UAdd(sd.zero_util_rate,
                       UDiv(UMul(utilization, USub(vertex_interest, sd.zero_util_rate)),
                            sd.vertex_utilization)))
        ELSE
            AsU64(UAdd(vertex_interest,
                       UDiv(UMul(USub(utilization, sd.vertex_utilization),
                                 USub(new_full_utilization_interest, vertex_interest)),
                            USub(sd.util_prec, sd.vertex_utilization))))

----------------------------------------------------------------------------
(* AprEvaluator *)

\* line 97: U256::from((I256::from(total_asset.as_u128() as i128) + delta).as_i128() as u128)
asset_amount_after(sd, delta) ==
    IF AsU128(sd.total_asset) < 0 THEN PANIC
    ELSE LET sum == U128AsI128(sd.total_asset) + delta
         IN  IF ~FitsI128(sum) THEN PANIC ELSE I128AsU128(sum)

apr_after_debt_change(sd, delta) ==
    IF delta = 0 THEN UMul(sd.rate_per_sec, SECONDS_PER_YEAR)
    ELSE
        LET asset_amount == asset_amount_after(sd, delta)
        IN  IF asset_amount < 0 THEN PANIC
            ELSE IF sd.is_interest_paused THEN UMul(sd.rate_per_sec, SECONDS_PER_YEAR)
            ELSE
                LET delta_time == USub(sd.cur_timestamp, sd.last_timestamp)
                    utilization_rate ==
                        IF asset_amount = 0 THEN 0
                        ELSE UDiv(UMul(sd.util_prec, sd.total_borrow), asset_amount)
                    rate_per_sec ==
                        IF delta_time < 0 THEN PANIC
                        ELSE get_new_rate(delta_time, utilization_rate, sd)
                IN  UMul(rate_per_sec, SECONDS_PER_YEAR)

----------------------------------------------------------------------------
(* AllocationOptimizer *)

RECURSIVE SumSeq(_)
SumSeq(s) == IF s = <<>> THEN 0 ELSE Head(s) + SumSeq(Tail(s))

Reverse(s) == [k \in 1..Len(s) |-> s[Len(s) + 1 - k]]

\* line 129
DepositUnit(cc, ti, ta) == UDiv(USub(ta, ti), cc)

\* line 139: the amount added on the final iteration
Remainder(cc, ti, ta, unit) == USub(USub(ta, ti), UMul(unit, cc - 1))

\* line 139: the (0-based) index b[i as usize] of the final iteration i
remainder_index(ci) == ci

\* lines 138-140; <<>> is an index out of bounds or an overflow
add_remainder(bb, ci, cc, ti, ta, unit) ==
    IF ci # cc - 1 THEN bb
    ELSE IF remainder_index(ci) + 1 > Len(bb) THEN <<>>
    ELSE LET nd == UAdd(bb[remainder_index(ci) + 1], Remainder(cc, ti, ta, unit))
         IN  IF nd < 0 THEN <<>> ELSE [bb EXCEPT ![remainder_index(ci) + 1] = nd]

\* line 152: the delta handed to apr_after_debt_change, already known to fit
\* (as_u128 as i128), and the narrowing of its result
candidate_apr(sd, debt, unit, current_debt) ==
    LET d == AsU128(USub(UAdd(debt, unit), current_debt))
    IN  IF d < 0 THEN PANIC
        ELSE AsU64(apr_after_debt_change(sd, U128AsI128(d)))

\* a scan that lets a later strategy win a tie
keeps_max_unless_tied(max_apr, apr) == max_apr > apr

\* line 154: the candidate is skipped
keeps_max(max_apr, apr) == max_apr >= apr

\* lines 146-160, from strategy j (1-based) on; max_index is 0-based
RECURSIVE scan_strategies(_, _, _, _, _, _, _)
scan_strategies(j, max_apr, mi, bb, unit, st, sds) ==
    IF j > Len(bb) THEN [max_apr |-> max_apr, max_index |-> mi]
    ELSE IF UAdd(bb[j], unit) < 0 THEN [max_apr |-> PANIC, max_index |-> mi]
    ELSE IF bb[j] + unit > st[j].max_debt
         THEN scan_strategies(j + 1, max_apr, mi, bb, unit, st, sds)
    ELSE LET apr == candidate_apr(sds[j], bb[j], unit, st[j].current_debt)
         IN  IF apr < 0 THEN [max_apr |-> PANIC, max_index |-> mi]
             ELSE IF keeps_max(max_apr, apr)
                  THEN scan_strategies(j + 1, max_apr, mi, bb, unit, st, sds)
             ELSE scan_strategies(j + 1, apr, j - 1, bb, unit, st, sds)

\* line 166; <<>> is an index out of bounds or an overflow
place_chunk(bb, mi, unit) ==
    IF mi + 1 > Len(bb) THEN <<>>
    ELSE IF UAdd(bb[mi + 1], unit) < 0 THEN <<>>
    ELSE [bb EXCEPT ![mi + 1] = @ + unit]

\* line 179
is_withdraw(current_debt, debt) == current_debt > debt

\* the indices k of from..Len(bb), in order, whose position goes to the
\* withdraws (w = TRUE) or to the deposits (w = FALSE)
RECURSIVE group_indices(_, _, _, _)
group_indices(from, w, bb, st) ==
    IF from > Len(bb) THEN <<>>
    ELSE IF is_withdraw(st[from].current_debt, bb[from]) = w
         THEN <<from>> \o group_indices(from + 1, w, bb, st)
    ELSE group_indices(from + 1, w, bb, st)

\* deposits left in index order
order_deposits_unreversed(deposits) == deposits

\* line 186
order_deposits(deposits) == Reverse(deposits)

\* lines 169-189
make_positions(init, bb, st) ==
    LET order == group_indices(1, TRUE, bb, st)
                 \o order_deposits(group_indices(1, FALSE, bb, st))
    IN  [k \in 1..Len(order) |->
            [strategy |-> init[order[k]].strategy, debt |-> bb[order[k]]]]

----------------------------------------------------------------------------
(* AllocationAggregator *)

\* lines 206-210: <<total_apr, total_amount>> over the strategies from k on
RECURSIVE current_totals(_, _, _, _, _)
current_totals(k, total_apr, total_amount, sds, st) ==
    IF k > Len(st) \/ total_apr < 0 \/ total_amount < 0 THEN <<total_apr, total_amount>>
    ELSE current_totals(k + 1,
            UAdd(total_apr, UMul(apr_after_debt_change(sds[k], 0), st[k].current_debt)),
            UAdd(total_amount, st[k].current_debt), sds, st)

\* lines 211-215 and 237-241
average_apr(totals) ==
    IF totals[1] < 0 \/ totals[2] < 0 THEN PANIC
    ELSE IF totals[1] = 0 \/ totals[2] = 0 THEN 0
    ELSE AsU64(UDiv(totals[1], totals[2]))

\* lines 221-227: the first j with initial_datas[j].strategy = strategy, or
\* strategy_count (here Len(init) + 1)
find_strategy(init, strategy) ==
    IF \E j \in 1..Len(init) : init[j].strategy = strategy
    THEN CHOOSE j \in 1..Len(init) :
            /\ init[j].strategy = strategy
            /\ \A h \in 1..(j - 1) : init[h].strategy # strategy
    ELSE Len(init) + 1

\* line 233: the signed delta of an optimal position
position_delta(debt, current_debt) ==
    IF AsU128(debt) < 0 \/ AsU128(current_debt) < 0 THEN [ok |-> FALSE, v |-> 0]
    ELSE [ok |-> TRUE, v |-> U128AsI128(debt) - U128AsI128(current_debt)]

\* lines 220-236
RECURSIVE new_totals(_, _, _, _, _, _, _)
new_totals(k, total_apr, total_amount, init, sds, st, opt) ==
    IF k > Len(init) \/ total_apr < 0 \/ total_amount < 0 THEN <<total_apr, total_amount>>
    ELSE LET index == find_strategy(init, opt[k].strategy)
         IN  IF index = Len(init) + 1 THEN <<total_apr, total_amount>>
             ELSE LET d == position_delta(opt[k].debt, st[index].current_debt)
                      apr == IF d.ok THEN apr_after_debt_change(sds[index], d.v) ELSE PANIC
                  IN  new_totals(k + 1,
                          UAdd(total_apr, UMul(apr, opt[k].debt)),
                          UAdd(total_amount, opt[k].debt), init, sds, st, opt)

\* an aggregator that still computes currentApr on an empty output
get_current_and_new_apr_no_early_zero(init, sds, st, opt) ==
    LET cur == average_apr(current_totals(1, 0, 0, sds, st))
    IN  IF cur < 0 THEN [current_apr |-> PANIC, new_apr |-> PANIC]
        ELSE IF Len(opt) = 0 THEN [current_apr |-> cur, new_apr |-> 0]
        ELSE [current_apr |-> cur,
              new_apr |-> average_apr(new_totals(1, 0, 0, init, sds, st, opt))]

\* lines 198-243; a PANIC in either component is a panic
get_current_and_new_apr(init, sds, st, opt) ==
    IF Len(opt) = 0 THEN [current_apr |-> 0, new_apr |-> 0]
    ELSE LET cur == average_apr(current_totals(1, 0, 0, sds, st))
         IN  IF cur < 0 THEN [current_apr |-> PANIC, new_apr |-> PANIC]
             ELSE [current_apr |-> cur,
                   new_apr |-> average_apr(new_totals(1, 0, 0, init, sds, st, opt))]

\* a gate that also accepts an equal APR
accepts_or_equal(cur, new) == new >= cur

\* line 351
accepts(cur, new) == new > cur

----------------------------------------------------------------------------
(* Inputs.  A SturdyDataParams record is drawn by varying some fields of  *)
(* BaseParams over small sets.                                             *)

BaseParams ==
    [cur_timestamp |-> 2, last_timestamp |-> 1, rate_per_sec |-> 1,
     full_utilization_rate |-> 4, total_asset |-> 10, total_borrow |-> 4,
     util_prec |-> 10, min_target_util |-> 3, max_target_util |-> 6,
     vertex_utilization |-> 5, min_full_util_rate |-> 1, max_full_util_rate |-> 6,
     zero_util_rate |-> 1, rate_half_life |-> 2, vertex_rate_percent |-> 5,
     rate_prec |-> 10, is_interest_paused |-> FALSE]

MaxDeltaTime == 2
MaxUtilization == 11
MaxDelta == 4

\* values of the variables a specification does not use
NoMain ==
    /\ c = 0
    /\ total_initial_amount = 0
    /\ total_available_amount = 0
    /\ initial_datas = <<>>
    /\ strategy_datas = <<>>
    /\ sturdy_datas = <<>>
    /\ deposit_unit = 0
    /\ b = <<>>
    /\ i = 0
    /\ b_before = <<>>
    /\ b_mid = <<>>
    /\ max_index = 0
    /\ optimal_allocations = <<>>
    /\ current_apr = 0
    /\ new_apr = 0
    /\ journal = 0

mainVars == <<c, total_initial_amount, total_available_amount, initial_datas,
              strategy_datas, sturdy_datas, deposit_unit, b, i, b_before, b_mid,
              max_index, optimal_allocations, current_apr, new_apr, journal>>

----------------------------------------------------------------------------
(* get_full_utilization_interest applied to drawn inputs *)

RateParams ==
    { [BaseParams EXCEPT !.min_target_util = mn, !.max_target_util = mx,
                         !.full_utilization_rate = fu, !.rate_half_life = hl,
                         !.min_full_util_rate = lo, !.max_full_util_rate = hi] :
        mn \in {0, 3}, mx \in {6, 10}, fu \in {0, 2, 5, U64Max + 1},
        hl \in {0, 2}, lo \in {0, 1, 3}, hi \in {2, 6} }

InitRate ==
    /\ pc = "call"
    /\ arg \in [delta_time : 0..MaxDeltaTime, utilization : 0..MaxUtilization,
                sd : RateParams]
    /\ ret = 0
    /\ NoMain

CallRate ==
    /\ pc = "call"
    /\ ret' = get_full_utilization_interest(arg.delta_time, arg.utilization, arg.sd)
    /\ pc' = IF ret' = PANIC THEN "abort" ELSE "returned"
    /\ UNCHANGED <<arg, mainVars>>

SpecRate == InitRate /\ [][CallRate]_vars

----------------------------------------------------------------------------
(* apr_after_debt_change applied to drawn inputs *)

AprParams ==
    { [BaseParams EXCEPT !.rate_per_sec = r, !.total_asset = ta, !.total_borrow = tb,
                         !.is_interest_paused = ip, !.cur_timestamp = ts[1],
                         !.last_timestamp = ts[2], !.zero_util_rate = z] :
        r \in {0, 1, 2}, ta \in {0, 3, 10, U128Max, U128Max + 1},
        tb \in {0, 4}, ip \in BOOLEAN, ts \in {<<1, 1>>, <<2, 1>>, <<1, 2>>},
        z \in {0, 1} }

InitApr ==
    /\ pc = "call"
    /\ arg \in [sd : AprParams, delta : (0 - MaxDelta)..MaxDelta]
    /\ ret = 0
    /\ NoMain

CallApr ==
    /\ pc = "call"
    /\ ret' = apr_after_debt_change(arg.sd, arg.delta)
    /\ pc' = IF ret' = PANIC THEN "abort" ELSE "returned"
    /\ UNCHANGED <<arg, mainVars>>

SpecApr == InitApr /\ [][CallApr]_vars

----------------------------------------------------------------------------
(* main on drawn inputs.  Strategy k has the address Address(k); the three *)
(* lists have the same length.  activation and last_report of a            *)
(* StrategyParams are decoded and never read, and are left out.            *)

MaxStrategies == 2
MaxChunks == 3
MaxAvailable == 4

Address(k) == 100 + k

\* <<debt of the initial position, current_debt, max_debt>>
DebtProfiles == { <<0, 0, 4>>, <<2, 2, 3>>, <<1, 3, 5>>, <<4, 2, 4>> }

CurveProfiles ==
    { [BaseParams EXCEPT !.is_interest_paused = TRUE, !.rate_per_sec = 1],
      [BaseParams EXCEPT !.is_interest_paused = TRUE, !.rate_per_sec = 2],
      [BaseParams EXCEPT !.rate_per_sec = 0],
      [BaseParams EXCEPT !.total_asset = 2, !.total_borrow = 1] }

NoJournal == [actions |-> <<>>, new_apr |-> 0, current_apr |-> 0, accepted |-> FALSE]

Init ==
    /\ pc = "start"
    /\ c \in 0..MaxChunks
    /\ total_initial_amount \in {0, 1}
    /\ total_available_amount \in 0..MaxAvailable
    /\ \E n \in 1..MaxStrategies :
         \E dp \in [1..n -> DebtProfiles], cp \in [1..n -> CurveProfiles] :
            /\ initial_datas = [k \in 1..n |-> [strategy |-> Address(k), debt |-> dp[k][1]]]
            /\ strategy_datas =
                   [k \in 1..n |-> [current_debt |-> dp[k][2], max_debt |-> dp[k][3]]]
            /\ sturdy_datas = cp
    /\ deposit_unit = 0
    /\ b = <<>>
    /\ i = 0
    /\ b_before = <<>>
    /\ b_mid = <<>>
    /\ max_index = 0
    /\ optimal_allocations = <<>>
    /\ current_apr = 0
    /\ new_apr = 0
    /\ journal = NoJournal
    /\ arg = 0
    /\ ret = 0

inputVars == <<c, total_initial_amount, total_available_amount, initial_datas,
               strategy_datas, sturdy_datas, arg, ret>>

\* line 334 (chunk_count.as_u64()) and lines 128-133: get_optimal_allocation
\* up to the loop
Begin ==
    /\ pc = "start"
    /\ deposit_unit' = DepositUnit(AsU64(c), total_initial_amount, total_available_amount)
    /\ IF deposit_unit' = PANIC
       THEN pc' = "abort" /\ UNCHANGED b
       ELSE IF deposit_unit' = 0
       THEN pc' = "aggregate" /\ UNCHANGED b
       ELSE /\ pc' = "loop"
            /\ b' = [k \in 1..Len(initial_datas) |-> initial_datas[k].debt]
    /\ UNCHANGED <<inputVars, i, b_before, b_mid, max_index, optimal_allocations,
                   current_apr, new_apr, journal>>

\* lines 136-167: one iteration of the chunk loop
ChunkStep ==
    /\ pc = "loop"
    /\ i < c
    /\ LET b1 == add_remainder(b, i, c, total_initial_amount, total_available_amount,
                               deposit_unit)
           found == IF b1 = <<>> THEN [max_apr |-> PANIC, max_index |-> 0]
                    ELSE scan_strategies(1, 0, 0, b1, deposit_unit, strategy_datas,
                                         sturdy_datas)
           b2 == IF found.max_apr = PANIC THEN <<>>
                 ELSE place_chunk(b1, found.max_index, deposit_unit)
       IN  IF b2 = <<>>
           THEN pc' = "abort" /\ UNCHANGED <<b, i, b_before, b_mid, max_index>>
           ELSE /\ b_before' = b
                /\ b_mid' = b1
                /\ max_index' = found.max_index
                /\ b' = b2
                /\ i' = i + 1
                /\ pc' = IF i + 1 = c THEN "partition" ELSE "loop"
    /\ UNCHANGED <<inputVars, deposit_unit, optimal_allocations, current_apr, new_apr,
                   journal>>

\* lines 169-189
Partition ==
    /\ pc = "partition"
    /\ optimal_allocations' = make_positions(initial_datas, b, strategy_datas)
    /\ pc' = "aggregate"
    /\ UNCHANGED <<inputVars, deposit_unit, b, i, b_before, b_mid, max_index,
                   current_apr, new_apr, journal>>

\* lines 342-347
Aggregate ==
    /\ pc = "aggregate"
    /\ LET r == get_current_and_new_apr(initial_datas, sturdy_datas, strategy_datas,
                                        optimal_allocations)
       IN  IF r.current_apr = PANIC \/ r.new_apr = PANIC
           THEN pc' = "abort" /\ UNCHANGED <<current_apr, new_apr>>
           ELSE /\ current_apr' = r.current_apr
                /\ new_apr' = r.new_apr
                /\ pc' = "commit"
    /\ UNCHANGED <<inputVars, deposit_unit, b, i, b_before, b_mid, max_index,
                   optimal_allocations, journal>>

\* lines 351-371
Commit ==
    /\ pc = "commit"
    /\ journal' = IF accepts(current_apr, new_apr)
                  THEN [actions |-> optimal_allocations, new_apr |-> new_apr,
                        current_apr |-> current_apr, accepted |-> TRUE]
                  ELSE [actions |-> <<>>, new_apr |-> new_apr,
                        current_apr |-> current_apr, accepted |-> FALSE]
    /\ pc' = "done"
    /\ UNCHANGED <<inputVars, deposit_unit, b, i, b_before, b_mid, max_index,
                   optimal_allocations, current_apr, new_apr>>

Next == Begin \/ ChunkStep \/ Partition \/ Aggregate \/ Commit

Spec == Init /\ [][Next]_vars

----------------------------------------------------------------------------
(* Properties of main (Spec) *)

StrategyCount == Len(initial_datas)

\* the input index (1-based) of the strategy of output position p
IndexOf(out, p) == find_strategy(initial_datas, out[p].strategy)

AvailableDelta == total_available_amount - total_initial_amount

\* C1: when main completes, the committed action list is non-empty only if
\* newApr > currentApr; when newApr <= currentApr the list is empty and the
\* flag is false; the flag is true exactly when newApr > currentApr.
C1_AcceptanceGate ==
    pc = "done" =>
        /\ journal.new_apr = new_apr
        /\ journal.current_apr = current_apr
        /\ journal.accepted <=> (new_apr > current_apr)
        /\ (journal.actions # <<>>) => (new_apr > current_apr)
        /\ (new_apr <= current_apr) => (journal.actions = <<>> /\ ~journal.accepted)
        /\ (new_apr > current_apr) => (journal.actions = optimal_allocations)

\* a computed plan is discarded because its APR is not strictly better
C1_Witness ==
    /\ pc = "done"
    /\ optimal_allocations # <<>>
    /\ new_apr = current_apr
    /\ new_apr > 0
    /\ journal.actions = <<>>

\* C2: in every accepted plan every emitted position has debt <= max_debt
\* of its strategy, given current_debt <= max_debt for every strategy.
C2_CapacityRespect ==
    ( /\ pc = "done"
      /\ journal.accepted
      /\ \A k \in 1..StrategyCount :
            strategy_datas[k].current_debt <= strategy_datas[k].max_debt )
    => \A p \in 1..Len(journal.actions) :
            journal.actions[p].debt
                <= strategy_datas[IndexOf(journal.actions, p)].max_debt

\* the debt-weighted average of apr_after_debt_change(params[k], 0),
\* weighted by current_debt[k]
WeightedCurrentApr ==
    LET weight == SumSeq([k \in 1..StrategyCount |-> strategy_datas[k].current_debt])
        weighted == SumSeq([k \in 1..StrategyCount |->
                        apr_after_debt_change(sturdy_datas[k], 0)
                            * strategy_datas[k].current_debt])
    IN  IF weight = 0 \/ weighted = 0 THEN 0 ELSE weighted \div weight

\* C3 as claimed: on an empty optimizer output get_current_and_new_apr
\* returns newApr = 0 and currentApr = the debt-weighted average of the
\* current APRs.
C3_EmptyOutputWeightedAverage ==
    (pc \in {"commit", "done"} /\ optimal_allocations = <<>>)
    => (new_apr = 0 /\ current_apr = WeightedCurrentApr)

\* C3 as amended: on an empty optimizer output get_current_and_new_apr
\* returns (0, 0), whatever the debt-weighted average of the current APRs is.
C3_EmptyOutputZero ==
    (pc \in {"commit", "done"} /\ optimal_allocations = <<>>)
    => (new_apr = 0 /\ current_apr = 0)

C3_Witness ==
    /\ pc = "commit"
    /\ optimal_allocations = <<>>
    /\ WeightedCurrentApr > 0
    /\ current_apr = 0

\* position p of the result is a withdrawal
IsWithdrawal(out, p) ==
    out[p].debt < strategy_datas[IndexOf(out, p)].current_debt

\* C4: in a non-empty result every input strategy appears exactly once with
\* its final debt; every withdrawal (final debt < current_debt) precedes
\* every deposit (final debt >= current_debt); withdrawals are in index
\* order and deposits in reversed index order.
C4_PartitionOrder ==
    (pc \in {"aggregate", "commit", "done"} /\ optimal_allocations # <<>>)
    => LET out == optimal_allocations
       IN  /\ Len(out) = StrategyCount
           /\ \A k \in 1..StrategyCount :
                Cardinality({p \in 1..Len(out) :
                                out[p].strategy = initial_datas[k].strategy}) = 1
           /\ \A p \in 1..Len(out) : out[p].debt = b[IndexOf(out, p)]
           /\ \A p, q \in 1..Len(out) :
                p < q =>
                    /\ IsWithdrawal(out, q) => IsWithdrawal(out, p)
                    /\ (IsWithdrawal(out, p) /\ IsWithdrawal(out, q))
                            => IndexOf(out, p) < IndexOf(out, q)
                    /\ (~IsWithdrawal(out, p) /\ ~IsWithdrawal(out, q))
                            => IndexOf(out, p) > IndexOf(out, q)

\* a result of two deposits, reversed
C4_Witness ==
    /\ pc = "aggregate"
    /\ Len(optimal_allocations) = 2
    /\ ~IsWithdrawal(optimal_allocations, 1)
    /\ ~IsWithdrawal(optimal_allocations, 2)
    /\ optimal_allocations[1].strategy = Address(2)
    /\ optimal_allocations[1].debt # optimal_allocations[2].debt

\* C7: on the final iteration the remainder is added to the working debt of
\* strategy index 0 and to no other, before the placement.
C7_RemainderToIndexZero ==
    pc = "partition" =>
        b_mid = [b_before EXCEPT ![1] = @ + AvailableDelta - deposit_unit * (c - 1)]

\* the strategies (1-based) that pass the capacity check of an iteration
\* that started its placement from debts bb
Feasible(bb) ==
    {j \in 1..Len(bb) : bb[j] + deposit_unit <= strategy_datas[j].max_debt}

AprAt(bb, j) ==
    apr_after_debt_change(sturdy_datas[j],
                          bb[j] + deposit_unit - strategy_datas[j].current_debt)

MaxFeasibleApr(bb) ==
    IF Feasible(bb) = {} THEN 0
    ELSE CHOOSE m \in {AprAt(bb, j) : j \in Feasible(bb)} :
            \A j \in Feasible(bb) : AprAt(bb, j) <= m

\* the 0-based index C8 names
ChosenIndex(bb) ==
    IF MaxFeasibleApr(bb) = 0 THEN 0
    ELSE (CHOOSE j \in Feasible(bb) :
            /\ AprAt(bb, j) = MaxFeasibleApr(bb)
            /\ \A h \in Feasible(bb) : AprAt(bb, h) = MaxFeasibleApr(bb) => j <= h) - 1

\* C8: every iteration adds depositUnit to exactly one working debt: that of
\* the lowest-index strategy with the greatest APR among those passing the
\* capacity check when that APR is > 0, and that of index 0 otherwise.
C8_ChunkPlacement ==
    (pc \in {"loop", "partition"} /\ i >= 1)
    => /\ max_index = ChosenIndex(b_mid)
       /\ b = [b_mid EXCEPT ![max_index + 1] = @ + deposit_unit]

\* a tie of the greatest APR between two feasible strategies
C8_Witness ==
    /\ pc \in {"loop", "partition"}
    /\ i >= 1
    /\ MaxFeasibleApr(b_mid) > 0
    /\ \E j \in Feasible(b_mid) :
            j > max_index + 1 /\ AprAt(b_mid, j) = MaxFeasibleApr(b_mid)

\* C10: the debts of a non-empty result sum to the initial debts plus
\* totalAvailableAmount - totalInitialAmount.
C10_Conservation ==
    (pc \in {"aggregate", "commit", "done"} /\ optimal_allocations # <<>>)
    => SumSeq([p \in 1..Len(optimal_allocations) |-> optimal_allocations[p].debt])
        = SumSeq([k \in 1..StrategyCount |-> initial_datas[k].debt]) + AvailableDelta

----------------------------------------------------------------------------
(* Properties of get_full_utilization_interest (SpecRate) *)

\* C5 as claimed: whenever the function returns, the rate lies in
\* [min_full_util_rate, max_full_util_rate].
C5_RateClamp ==
    pc = "returned" =>
        (arg.sd.min_full_util_rate <= ret /\ ret <= arg.sd.max_full_util_rate)

\* C5 as amended: the same for the records with
\* min_full_util_rate <= max_full_util_rate.
C5_RateClampOrdered ==
    (pc = "returned" /\ arg.sd.min_full_util_rate <= arg.sd.max_full_util_rate) =>
        (arg.sd.min_full_util_rate <= ret /\ ret <= arg.sd.max_full_util_rate)

\* the decay branch fell below the minimum and was raised to it
C5_Witness ==
    /\ pc = "returned"
    /\ arg.sd.min_full_util_rate <= arg.sd.max_full_util_rate
    /\ arg.utilization < arg.sd.min_target_util
    /\ get_full_utilization_interest_unclamped(arg.delta_time, arg.utilization, arg.sd)
            \in 1..(arg.sd.min_full_util_rate - 1)
    /\ ret = arg.sd.min_full_util_rate

----------------------------------------------------------------------------
(* Properties of apr_after_debt_change (SpecApr) *)

\* C6: a paused strategy's APR is rate_per_sec * SECONDS_PER_YEAR for every
\* delta, with no abort.
C6_PausedInvariance ==
    (pc # "call" /\ arg.sd.is_interest_paused)
    => ret = arg.sd.rate_per_sec * SECONDS_PER_YEAR

\* C9: when total_asset + delta is negative for a non-paused strategy and a
\* non-zero delta, the call aborts and returns no APR.
C9_NegativeAssetAborts ==
    ( /\ pc # "call"
      /\ ~arg.sd.is_interest_paused
      /\ arg.delta # 0
      /\ arg.sd.total_asset + arg.delta < 0 )
    => pc = "abort"

=============================================================================
